---- MODULE Spec2Model ----
(***************************************************************************)
(* Model of the algo-trader simulator: the per-instrument OrderBook and    *)
(* its matching pass, the per-node Exchange with its mutex-protected       *)
(* intake queue, the MPI collectives used by MarketDataManager, and the    *)
(* tick loop of main() with its OpenMP worker threads.                     *)
(*                                                                         *)
(* Prices are doubles in the program.  Here they are fixed-point integers  *)
(* in units of 1/PriceScale, with PriceScale = 2 * NumNodes, so that the   *)
(* midpoint of two whole prices and the mean of NumNodes midpoints are     *)
(* exact; floating-point rounding is outside the model.                    *)
(***************************************************************************)
EXTENDS Integers, Sequences, FiniteSets, TLC

\* ---------------------------------------------------------------- bounds
\* MPI communicator size (number of ranks = exchanges).
NumNodes == 2
\* NUM_AGENTS of main(): OpenMP worker threads per rank (8 in the program).
NumAgents == 2
\* NUM_INSTRUMENTS of main(): order books per exchange (3 in the program).
NumInstruments == 2
\* SIMULATION_TICKS of main() (1000 in the program).
SimulationTicks == 2
\* Concurrent callers of Exchange::submit_order in the exchange-level run.
NumCallers == 2
\* Orders handed to Exchange::submit_order in the exchange-level run.
MaxOrders == 3
\* Orders handed to Exchange::submit_order in the sequential run.
MaxSeqOrders == 4

Nodes == 0 .. NumNodes - 1
Workers == 0 .. NumAgents - 1
Callers == 0 .. NumCallers - 1
Instruments == 0 .. NumInstruments - 1

PriceScale == 2 * NumNodes
Px(x) == x * PriceScale
\* OrderBook() seeds last_price with 100.0.
SeedPrice == Px(100)

\* Holders of a mutex: no thread, the main thread, or worker thread w.
NoThread == <<>>
MainThread == <<"main">>
WorkerThread(w) == <<"worker", w>>

\* ------------------------------------------------------------- utilities
Min(a, b) == IF a < b THEN a ELSE b

RECURSIVE SumSeq(_)
SumSeq(s) == IF s = <<>> THEN 0 ELSE Head(s) + SumSeq(Tail(s))

RECURSIVE SumOver(_, _)
SumOver(f, S) ==
  IF S = {} THEN 0
  ELSE LET x == CHOOSE y \in S : TRUE IN f[x] + SumOver(f, S \ {x})

Perms(n) == {f \in [1 .. n -> 1 .. n] : \A i, j \in 1 .. n : i # j => f[i] # f[j]}

\* ------------------------------------------------------------ data types
\* struct Order, as built by Order() and filled by the strategies.
Order(agent, instr, price, volume, buy, ts) ==
  [agent_id |-> agent, instrument_id |-> instr, price |-> price,
   volume |-> volume, is_buy |-> buy, timestamp |-> ts, order_id |-> 0]

\* struct Trade, in the field order of the aggregate initialisation.
Trade(buyer, seller, instr, price, volume, ts) ==
  [buy_agent_id |-> buyer, sell_agent_id |-> seller, instrument_id |-> instr,
   price |-> price, volume |-> volume, timestamp |-> ts]

\* OrderBook::OrderBook(): empty sides, last_price seeded, history = <<seed>>.
NewOrderBook ==
  [bids |-> <<>>, asks |-> <<>>, last_price |-> SeedPrice,
   price_history |-> <<SeedPrice>>]

\* ------------------------------------------------------------- OrderBook
\* Variant: among equal prices the later timestamp comes first.
bid_cmp_latest_first(a, b) ==
  IF a.price # b.price THEN a.price > b.price ELSE a.timestamp > b.timestamp

\* bid_cmp: higher price first, then earlier timestamp.
bid_cmp(a, b) ==
  IF a.price # b.price THEN a.price > b.price ELSE a.timestamp < b.timestamp

\* ask_cmp: lower price first, then earlier timestamp.
ask_cmp(a, b) ==
  IF a.price # b.price THEN a.price < b.price ELSE a.timestamp < b.timestamp

\* std::sort with bid_cmp (for the bids) or ask_cmp (for the asks).  It is
\* not stable: any permutation with no adjacent inversion under the
\* comparator is a possible result, so elements that compare equivalent may
\* come out in either order.
sort(s, for_bids) ==
  {p \in {[i \in 1 .. Len(s) |-> s[f[i]]] : f \in Perms(Len(s))} :
     \A i \in 1 .. Len(p) - 1 :
       ~(IF for_bids THEN bid_cmp(p[i + 1], p[i]) ELSE ask_cmp(p[i + 1], p[i]))}

\* Variant: an order with a non-positive price or volume is not booked.
add_order_positive_only(book, order) ==
  IF order.price <= 0 \/ order.volume <= 0 THEN book
  ELSE IF order.is_buy
       THEN [book EXCEPT !.bids = Append(@, order)]
       ELSE [book EXCEPT !.asks = Append(@, order)]

\* OrderBook::add_order: push_back on the side the order names.
add_order(book, order) ==
  IF order.is_buy
  THEN [book EXCEPT !.bids = Append(@, order)]
  ELSE [book EXCEPT !.asks = Append(@, order)]

\* Variant: equal prices do not match either.
no_match_on_equal(bid, ask) == bid.price <= ask.price

\* The break test of the matching loop: the top of book does not cross.
no_match(bid, ask) == bid.price < ask.price

\* Variant: the larger of the two volumes.
trade_volume_max(bid, ask) == IF bid.volume > ask.volume THEN bid.volume ELSE ask.volume

\* int vol = std::min(bid.volume, ask.volume)
trade_volume(bid, ask) == Min(bid.volume, ask.volume)

\* Variant: the trade executes at the bid.
trade_price_at_bid(bid, ask) == bid.price

\* (bid.price + ask.price) * 0.5
trade_price(bid, ask) == (bid.price + ask.price) \div 2

\* Variant: a fill also moves the order's timestamp on by one, as if the
\* rest of the order had been submitted anew.
reduce_volume_restamped(order, vol) ==
  [order EXCEPT !.volume = @ - vol, !.timestamp = @ + 1]

\* bid.volume -= vol, ask.volume -= vol: the order after a fill.
reduce_volume(order, vol) == [order EXCEPT !.volume = @ - vol]

\* One record per loop iteration, kept beside the trade: the two orders the
\* iteration compared, as they were when it began, the volume it executed
\* and the tick of the pass.  The Trade struct names agents only, so this is
\* what identifies the orders.
Fill(bid, ask, vol, current_tick) ==
  [buy |-> bid, sell |-> ask, volume |-> vol, pass |-> current_tick]

\* Variant: the trade is pushed twice.
record_trade_twice(trades, t) == Append(Append(trades, t), t)

\* trades.push_back(t): one trade per loop iteration that executes.
record_trade(trades, t) == Append(trades, t)

\* The while loop of match_orders over the sorted sides.  s carries bids,
\* asks, the indices bi and ai (0-based as in the code), last_price,
\* price_history, and the trades and fills produced so far.
RECURSIVE match_loop(_, _)
match_loop(s, current_tick) ==
  IF ~(s.bi < Len(s.bids) /\ s.ai < Len(s.asks)) THEN s
  ELSE
    LET bid == s.bids[s.bi + 1]
        ask == s.asks[s.ai + 1]
    IN IF no_match(bid, ask) THEN s
       ELSE
         LET vol == trade_volume(bid, ask)
             t == Trade(bid.agent_id, ask.agent_id, bid.instrument_id,
                        trade_price(bid, ask), vol, current_tick)
             bid_left == reduce_volume(bid, vol)
             ask_left == reduce_volume(ask, vol)
         IN match_loop(
              [s EXCEPT !.trades = record_trade(@, t),
                        !.fills = Append(@, Fill(bid, ask, vol, current_tick)),
                        !.last_price = t.price,
                        !.price_history = Append(@, t.price),
                        !.bids[s.bi + 1] = bid_left,
                        !.asks[s.ai + 1] = ask_left,
                        !.bi = IF bid_left.volume = 0 THEN @ + 1 ELSE @,
                        !.ai = IF ask_left.volume = 0 THEN @ + 1 ELSE @],
              current_tick)

\* Variant: nothing is erased after the loop.
erase_filled_none(s) ==
  [bids |-> s.bids, asks |-> s.asks,
   last_price |-> s.last_price, price_history |-> s.price_history]

\* Variant: the erased range also takes the order at the index.
erase_filled_inclusive(s) ==
  [bids |-> SubSeq(s.bids, s.bi + 2, Len(s.bids)),
   asks |-> SubSeq(s.asks, s.ai + 2, Len(s.asks)),
   last_price |-> s.last_price,
   price_history |-> s.price_history]

\* bids.erase(begin, begin + bi) and the same for asks.
erase_filled(s) ==
  [bids |-> SubSeq(s.bids, s.bi + 1, Len(s.bids)),
   asks |-> SubSeq(s.asks, s.ai + 1, Len(s.asks)),
   last_price |-> s.last_price,
   price_history |-> s.price_history]

\* Variant: the history gets one entry per pass, the price the pass ended
\* with, instead of one per trade.
match_sorted_history_per_pass(book, sbids, sasks, current_tick) ==
  LET s == match_loop([bids |-> sbids, asks |-> sasks, bi |-> 0, ai |-> 0,
                       last_price |-> book.last_price,
                       price_history |-> book.price_history,
                       trades |-> <<>>, fills |-> <<>>], current_tick)
  IN [book |-> [erase_filled(s) EXCEPT
                  !.price_history = Append(book.price_history, s.last_price)],
      trades |-> s.trades, fills |-> s.fills]

\* OrderBook::match_orders on given sorted sides: the resulting book, the
\* trades returned and the fills observed.
match_sorted(book, sbids, sasks, current_tick) ==
  LET s == match_loop([bids |-> sbids, asks |-> sasks, bi |-> 0, ai |-> 0,
                       last_price |-> book.last_price,
                       price_history |-> book.price_history,
                       trades |-> <<>>, fills |-> <<>>], current_tick)
  IN [book |-> erase_filled(s), trades |-> s.trades, fills |-> s.fills]

\* OrderBook::match_orders: every result the two std::sort calls allow.
match_orders(book, current_tick) ==
  {match_sorted(book, sb, sa, current_tick) :
     sb \in sort(book.bids, TRUE), sa \in sort(book.asks, FALSE)}

\* OrderBook::get_historical_average; the quotient is truncated to the
\* fixed-point grid.
book_historical_average(book) ==
  IF book.price_history = <<>> THEN book.last_price
  ELSE SumSeq(book.price_history) \div Len(book.price_history)


\* ----------------------------------------------------------------- state
VARIABLES
  \* class Exchange, one per rank
  order_books,      \* order_books[n][i]: the OrderBook of instrument i
  pending_orders,   \* pending_orders[n]: the intake queue
  order_mutex,      \* order_mutex[n]: the thread holding the mutex, or NoThread
  trade_log,        \* trade_log[n]: all executed trades
  next_order_id,    \* next_order_id[n]
  \* main() of each rank
  tick,             \* tick[n]: the loop variable
  mpc,              \* mpc[n]: position of the main thread
  trades_this_tick, \* trades_this_tick[n]: last return value of process_orders
  global_prices,    \* global_prices[n]: last result of broadcast_prices
  \* worker threads of the parallel region (callers of submit_order)
  wpc,              \* wpc[n][w]: position of thread w
  wobs,             \* wobs[n][w]: current_price and historical_avg it read
  worders,          \* worders[n][w]: orders it still has to submit
  worder,           \* worder[n][w]: the local copy o inside submit_order
  \* MPI_COMM_WORLD
  reduce_calls,     \* reduce_calls[n]: send buffers of the MPI_Allreduce calls rank n entered
  barrier_calls,    \* barrier_calls[n]: number of MPI_Barrier calls rank n entered
  \* observation logs (not program state)
  call_log,         \* call_log[n]: arguments of the submit_order calls, in lock order
  intake_log,       \* intake_log[n]: every order pushed on the queue, in push order
  fill_log,         \* fill_log[n]: the Fill records of all matching passes
  process_calls     \* process_calls[n]: number of process_orders calls begun

exchange_vars == <<order_books, pending_orders, order_mutex, trade_log, next_order_id>>
main_vars == <<tick, mpc, trades_this_tick, global_prices>>
worker_vars == <<wpc, wobs, worders, worder>>
mpi_vars == <<reduce_calls, barrier_calls>>
log_vars == <<call_log, intake_log, fill_log, process_calls>>
vars == <<exchange_vars, main_vars, worker_vars, mpi_vars, log_vars>>

\* ------------------------------------------------------------- Exchange
\* Exchange::Exchange: num_instruments default books, next_order_id = 1.
NewOrderBooks == [i \in Instruments |-> NewOrderBook]
FirstOrderId == 1

\* Variant: the mutex is never waited for.
LockNeverWaits(n) == TRUE

\* std::lock_guard<std::mutex> lock(order_mutex) can be constructed.
LockFree(n) == order_mutex[n] = NoThread

\* The routing test of process_orders.
in_range(instrument_id) == instrument_id >= 0 /\ instrument_id < NumInstruments

\* Variant: an order whose instrument has no book goes to the first book.
route_to_first(books, o) ==
  [books EXCEPT ![IF in_range(o.instrument_id) THEN o.instrument_id ELSE 0] =
     add_order(@, o)]

\* What process_orders does with one popped order.
route(books, o) ==
  IF in_range(o.instrument_id)
  THEN [books EXCEPT ![o.instrument_id] = add_order(@, o)]
  ELSE books

\* Variant: only the front of the queue reaches a book.
drain_front_only(books, queue) ==
  IF queue = <<>> THEN books ELSE route(books, Head(queue))

\* The drain loop of process_orders: pop the front until the queue is empty.
RECURSIVE drain(_, _)
drain(books, queue) ==
  IF queue = <<>> THEN books ELSE drain(route(books, Head(queue)), Tail(queue))

\* The id written back by next_order_id++ for an order that read id.
bump_id(id) == id + 1

\* submit_order(order) by thread w, first half: take the mutex, copy the
\* order into o, read the id.
LockAndRead(n, w, order) ==
  /\ LockFree(n)
  /\ order_mutex' = [order_mutex EXCEPT ![n] = WorkerThread(w)]
  /\ worder' = [worder EXCEPT ![n][w] = [order EXCEPT !.order_id = next_order_id[n]]]
  /\ wpc' = [wpc EXCEPT ![n][w] = "locked"]
  /\ call_log' = [call_log EXCEPT ![n] = Append(@, order)]
  /\ UNCHANGED <<order_books, pending_orders, trade_log, next_order_id,
                 main_vars, wobs, mpi_vars, intake_log, fill_log, process_calls>>

\* A worker of the parallel region calls submit_order with its next order.
SubmitLock(n, w) ==
  /\ wpc[n][w] = "submit"
  /\ LockAndRead(n, w, Head(worders[n][w]))
  /\ UNCHANGED worders

\* submit_order, second half: store the incremented id, push, release.
\* Afterwards the caller's loop takes its next order or ends.
SubmitWrite(n, w) ==
  /\ wpc[n][w] = "locked"
  /\ next_order_id' = [next_order_id EXCEPT ![n] = bump_id(worder[n][w].order_id)]
  /\ pending_orders' = [pending_orders EXCEPT ![n] = Append(@, worder[n][w])]
  /\ intake_log' = [intake_log EXCEPT ![n] = Append(@, worder[n][w])]
  /\ order_mutex' = [order_mutex EXCEPT ![n] = NoThread]
  /\ worder' = [worder EXCEPT ![n][w] = <<>>]
  /\ worders' = [worders EXCEPT ![n][w] = Tail(@)]
  /\ wpc' = [wpc EXCEPT ![n][w] =
               IF Tail(worders[n][w]) = <<>> THEN "done" ELSE "submit"]
  /\ UNCHANGED <<order_books, trade_log, main_vars, wobs, mpi_vars,
                 call_log, fill_log, process_calls>>

\* process_orders, the locked block: take the mutex and drain the queue
\* into the books.
ProcessLock(n) ==
  /\ mpc[n] = "process"
  /\ LockFree(n)
  /\ order_mutex' = [order_mutex EXCEPT ![n] = MainThread]
  /\ order_books' = [order_books EXCEPT ![n] = drain(@, pending_orders[n])]
  /\ pending_orders' = [pending_orders EXCEPT ![n] = <<>>]
  /\ mpc' = [mpc EXCEPT ![n] = "drained"]
  /\ process_calls' = [process_calls EXCEPT ![n] = @ + 1]
  /\ UNCHANGED <<trade_log, next_order_id, tick, trades_this_tick,
                 global_prices, worker_vars, mpi_vars,
                 call_log, intake_log, fill_log>>

\* Variant: the lock_guard lives to the end of process_orders, so the
\* matching runs with the mutex held.
ProcessKeepLock(n) ==
  /\ mpc[n] = "drained"
  /\ mpc' = [mpc EXCEPT ![n] = "match"]
  /\ UNCHANGED <<order_books, pending_orders, order_mutex, trade_log,
                 next_order_id, tick, trades_this_tick, global_prices,
                 worker_vars, mpi_vars, log_vars>>

\* process_orders, end of the locked block: the lock_guard releases.
ProcessUnlock(n) ==
  /\ mpc[n] = "drained"
  /\ order_mutex' = [order_mutex EXCEPT ![n] = NoThread]
  /\ mpc' = [mpc EXCEPT ![n] = "match"]
  /\ UNCHANGED <<order_books, pending_orders, trade_log, next_order_id,
                 tick, trades_this_tick, global_prices, worker_vars, mpi_vars,
                 log_vars>>

\* The results of matching every book once: one match_orders outcome per
\* instrument.
match_all(books, current_tick) ==
  {r \in [Instruments -> UNION {match_orders(books[i], current_tick) : i \in Instruments}] :
     \A i \in Instruments : r[i] \in match_orders(books[i], current_tick)}

\* Variant: the books are matched from the last index down to i.
RECURSIVE in_book_order_descending(_, _, _)
in_book_order_descending(r, i, field) ==
  IF i >= NumInstruments THEN <<>>
  ELSE in_book_order_descending(r, i + 1, field) \o r[i][field]

\* The trades (or fills) of books i, i+1, ... in ascending index, as the
\* for loop of process_orders appends them.
RECURSIVE in_book_order(_, _, _)
in_book_order(r, i, field) ==
  IF i >= NumInstruments THEN <<>>
  ELSE r[i][field] \o in_book_order(r, i + 1, field)

\* process_orders, the matching loop and the return of the trade count.
ProcessMatch(n) ==
  /\ mpc[n] = "match"
  /\ \E r \in match_all(order_books[n], tick[n]) :
       /\ order_books' = [order_books EXCEPT ![n] = [i \in Instruments |-> r[i].book]]
       /\ trade_log' = [trade_log EXCEPT ![n] = @ \o in_book_order(r, 0, "trades")]
       /\ fill_log' = [fill_log EXCEPT ![n] = @ \o in_book_order(r, 0, "fills")]
       /\ trades_this_tick' = [trades_this_tick EXCEPT ![n] =
                                 Len(in_book_order(r, 0, "trades"))]
  /\ mpc' = [mpc EXCEPT ![n] = "sync"]
  /\ UNCHANGED <<pending_orders, order_mutex, next_order_id, tick,
                 global_prices, worker_vars, mpi_vars,
                 call_log, intake_log, process_calls>>

\* Exchange::get_price
get_price(n, instrument_id) ==
  IF in_range(instrument_id) THEN order_books[n][instrument_id].last_price ELSE 0

\* Exchange::get_historical_average
get_historical_average(n, instrument_id) ==
  IF in_range(instrument_id)
  THEN book_historical_average(order_books[n][instrument_id]) ELSE 0

\* Exchange::get_all_prices
get_all_prices(n) == [i \in Instruments |-> order_books[n][i].last_price]

\* --------------------------------------------- the exchange-level run
\* One Exchange (rank 0) driven through its public interface: NumCallers
\* threads call submit_order with orders of OrderPool, MaxOrders calls in
\* all, while the owner calls process_orders once per tick.

\* The orders of the run: Scenario A, Scenario B, an order for the second
\* instrument, a zero and a negative volume, two instrument ids with no
\* book, an ask above every bid, an ask at price zero, and a buy that
\* equals the Scenario B tick-0 buy in price and timestamp.
OrderPool ==
  { Order(1, 0, Px(101), 10, TRUE, 0),
    Order(2, 0, Px(99), 10, FALSE, 1),
    Order(3, 0, Px(100), 5, TRUE, 0),
    Order(4, 0, Px(100), 5, TRUE, 1),
    Order(5, 0, Px(100), 7, FALSE, 2),
    Order(6, 1, Px(99), 10, FALSE, 1),
    Order(7, 0, Px(100), 0, FALSE, 0),
    Order(8, 0, Px(101), -1, TRUE, 0),
    Order(9, NumInstruments, Px(100), 5, TRUE, 0),
    Order(10, -1, Px(100), 5, FALSE, 0),
    Order(11, 0, Px(102), 5, FALSE, 0),
    Order(12, 0, Px(0), 5, FALSE, 0),
    Order(13, 0, Px(100), 5, TRUE, 0) }

InitOf(threads, first_pc) ==
  /\ order_books = [n \in Nodes |-> NewOrderBooks]
  /\ pending_orders = [n \in Nodes |-> <<>>]
  /\ order_mutex = [n \in Nodes |-> NoThread]
  /\ trade_log = [n \in Nodes |-> <<>>]
  /\ next_order_id = [n \in Nodes |-> FirstOrderId]
  /\ tick = [n \in Nodes |-> 0]
  /\ mpc = [n \in Nodes |-> first_pc]
  /\ trades_this_tick = [n \in Nodes |-> 0]
  /\ global_prices = [n \in Nodes |-> <<>>]
  /\ wpc = [n \in Nodes |-> [w \in threads |-> "idle"]]
  /\ wobs = [n \in Nodes |-> [w \in threads |-> <<>>]]
  /\ worders = [n \in Nodes |-> [w \in threads |-> <<>>]]
  /\ worder = [n \in Nodes |-> [w \in threads |-> <<>>]]
  /\ reduce_calls = [n \in Nodes |-> <<>>]
  /\ barrier_calls = [n \in Nodes |-> 0]
  /\ call_log = [n \in Nodes |-> <<>>]
  /\ intake_log = [n \in Nodes |-> <<>>]
  /\ fill_log = [n \in Nodes |-> <<>>]
  /\ process_calls = [n \in Nodes |-> 0]

\* A caller thread calls submit_order with an order of the pool.
CallSubmit(w, o) ==
  /\ wpc[0][w] \in {"idle", "done"}
  /\ Len(call_log[0]) < MaxOrders
  /\ worders' = [worders EXCEPT ![0][w] = <<o>>]
  /\ LockAndRead(0, w, o)

\* The owner, back from process_orders, calls it again for the next tick.
CallProcess ==
  /\ mpc[0] = "sync"
  /\ tick[0] + 1 < SimulationTicks
  /\ tick' = [tick EXCEPT ![0] = @ + 1]
  /\ mpc' = [mpc EXCEPT ![0] = "process"]
  /\ UNCHANGED <<exchange_vars, trades_this_tick, global_prices,
                 worker_vars, mpi_vars, log_vars>>

InitExch == InitOf(Callers, "process")

NextExch ==
  \/ \E w \in Callers, o \in OrderPool : CallSubmit(w, o)
  \/ \E w \in Callers : SubmitWrite(0, w)
  \/ ProcessLock(0)
  \/ ProcessUnlock(0)
  \/ ProcessMatch(0)
  \/ CallProcess

SpecExch == InitExch /\ [][NextExch]_vars

\* ------------------------------------------------- the sequential run
\* One Exchange (rank 0) used by a single thread, which calls submit_order
\* and process_orders one after the other, as a test of the class would:
\* up to MaxSeqOrders orders of SeqPool, submitted before or between the
\* process_orders calls of the ticks.

\* The orders of the run: Scenarios A and B and a sell of 2 at 100.
SeqPool ==
  { Order(1, 0, Px(101), 10, TRUE, 0),
    Order(2, 0, Px(99), 10, FALSE, 1),
    Order(3, 0, Px(100), 5, TRUE, 0),
    Order(4, 0, Px(100), 5, TRUE, 1),
    Order(5, 0, Px(100), 7, FALSE, 2),
    Order(14, 0, Px(100), 2, FALSE, 0) }

\* The thread is not inside process_orders.
OutsideProcess == mpc[0] \in {"process", "sync"}

\* The thread calls submit_order with an order of the pool.
SeqSubmit(o) ==
  /\ OutsideProcess
  /\ wpc[0][0] \in {"idle", "done"}
  /\ Len(call_log[0]) < MaxSeqOrders
  /\ worders' = [worders EXCEPT ![0][0] = <<o>>]
  /\ LockAndRead(0, 0, o)

\* The thread, not inside submit_order, enters process_orders.
SeqProcessLock == wpc[0][0] # "locked" /\ ProcessLock(0)

\* The thread, not inside submit_order, goes on to the next tick.
SeqCallProcess == wpc[0][0] # "locked" /\ CallProcess

NextSeq ==
  \/ \E o \in SeqPool : SeqSubmit(o)
  \/ SubmitWrite(0, 0)
  \/ SeqProcessLock
  \/ ProcessUnlock(0)
  \/ ProcessMatch(0)
  \/ SeqCallProcess

SpecSeq == InitExch /\ [][NextSeq]_vars


\* -------------------------------------------------------------- agents
\* AgentStrategy, chosen in main() as thread_id % 4.
RANDOM_WALK == 0
MOMENTUM == 1
MEAN_REVERSION == 2
MARKET_MAKER == 3

\* Side, limit price and volume of the orders the strategies produce.  The
\* program derives the price from current_price by a factor near 1, the
\* volume from a mt19937 draw and the side from a draw or from comparing
\* current_price with historical_average; the model lets a strategy pick
\* any of these quotes on every call.
StrategyQuotes ==
  { [is_buy |-> TRUE, price |-> Px(101), volume |-> 2],
    [is_buy |-> FALSE, price |-> Px(101), volume |-> 1] }

\* Agent::generate_orders: the order sequences a strategy can return for a
\* snapshot.  Every strategy but the market maker returns one order, the
\* market maker a bid followed by an ask; agent_id, instrument_id and
\* timestamp are set as in the code and order_id is 0.
generate_orders(strategy, agent_id, instrument_id, current_price, historical_average, timestamp) ==
  IF strategy = MARKET_MAKER
  THEN {<<Order(agent_id, instrument_id, b.price, b.volume, TRUE, timestamp),
          Order(agent_id, instrument_id, a.price, a.volume, FALSE, timestamp)>> :
          b \in {q \in StrategyQuotes : q.is_buy},
          a \in {q \in StrategyQuotes : ~q.is_buy}}
  ELSE {<<Order(agent_id, instrument_id, q.price, q.volume, q.is_buy, timestamp)>> :
          q \in StrategyQuotes}

\* ------------------------------------------------------ MarketDataManager
\* Variant: the call returns once any rank has entered it.
AllreduceCompleteAny(n) ==
  \E m \in Nodes : Len(reduce_calls[m]) >= Len(reduce_calls[n])

\* MPI_Allreduce returns on rank n once every rank has entered the call
\* that rank n is in.
AllreduceComplete(n) ==
  \A m \in Nodes : Len(reduce_calls[m]) >= Len(reduce_calls[n])

\* Variant: the barrier returns once any rank has entered it.
BarrierCompleteAny(n) ==
  \E m \in Nodes : barrier_calls[m] >= barrier_calls[n]

\* MPI_Barrier returns on rank n once every rank has entered the barrier
\* that rank n is in.
BarrierComplete(n) ==
  \A m \in Nodes : barrier_calls[m] >= barrier_calls[n]

\* MPI_SUM over the send buffers of call number k, position by position;
\* only a rank that has entered call k has a buffer in it.
allreduce_sum(k) ==
  [i \in Instruments |->
     SumOver([m \in Nodes |->
                IF Len(reduce_calls[m]) >= k THEN reduce_calls[m][k][i] ELSE 0],
             Nodes)]

\* Variant: the sums are returned without the division.
average_undivided(v, size) == v

\* v /= size
average(v, size) == v \div size

\* MarketDataManager::broadcast_prices: the vector returned for call k.
broadcast_prices(k) ==
  LET summed == allreduce_sum(k)
  IN [i \in Instruments |-> average(summed[i], NumNodes)]

\* ---------------------------------------------------------------- main
\* #pragma omp parallel: the team of NumAgents threads starts.
Fork(n) ==
  /\ mpc[n] = "fork"
  /\ wpc' = [wpc EXCEPT ![n] = [w \in Workers |-> "observe"]]
  /\ mpc' = [mpc EXCEPT ![n] = "join"]
  /\ UNCHANGED <<exchange_vars, tick, trades_this_tick, global_prices,
                 wobs, worders, worder, mpi_vars, log_vars>>

\* A worker reads the price and the historical average of its instrument
\* and asks its agent for orders.
Observe(n, w) ==
  /\ wpc[n][w] = "observe"
  /\ LET instrument_id == w % NumInstruments
         current_price == get_price(n, instrument_id)
         historical_avg == get_historical_average(n, instrument_id)
     IN /\ wobs' = [wobs EXCEPT ![n][w] = <<current_price, historical_avg>>]
        /\ \E orders \in generate_orders(w % 4, n * NumAgents + w, instrument_id,
                                         current_price, historical_avg, tick[n]) :
             /\ worders' = [worders EXCEPT ![n][w] = orders]
             /\ wpc' = [wpc EXCEPT ![n][w] = IF orders = <<>> THEN "done" ELSE "submit"]
  /\ UNCHANGED <<exchange_vars, main_vars, worder, mpi_vars, log_vars>>

\* Variant: main goes on as soon as one thread has finished.
AnyWorkerDone(n) == \E w \in Workers : wpc[n][w] = "done"

\* Every thread of the team has finished its block.
WorkersDone(n) == \A w \in Workers : wpc[n][w] = "done"

\* The implicit barrier at the end of the parallel region, after which main
\* calls process_orders; the threads' locals go out of scope.
Join(n) ==
  /\ mpc[n] = "join"
  /\ WorkersDone(n)
  /\ wobs' = [wobs EXCEPT ![n] = [w \in Workers |-> <<>>]]
  /\ mpc' = [mpc EXCEPT ![n] = "process"]
  /\ UNCHANGED <<exchange_vars, tick, trades_this_tick, global_prices,
                 wpc, worders, worder, mpi_vars, log_vars>>

\* broadcast_prices(get_all_prices()): the rank enters MPI_Allreduce.
EnterAllreduce(n) ==
  /\ mpc[n] = "sync"
  /\ reduce_calls' = [reduce_calls EXCEPT ![n] = Append(@, get_all_prices(n))]
  /\ mpc' = [mpc EXCEPT ![n] = "in_allreduce"]
  /\ UNCHANGED <<exchange_vars, tick, trades_this_tick, global_prices,
                 worker_vars, barrier_calls, log_vars>>

\* MPI_Allreduce returns and broadcast_prices averages the sums.
LeaveAllreduce(n) ==
  /\ mpc[n] = "in_allreduce"
  /\ AllreduceComplete(n)
  /\ global_prices' = [global_prices EXCEPT ![n] = broadcast_prices(Len(reduce_calls[n]))]
  /\ mpc' = [mpc EXCEPT ![n] = "update_global"]
  /\ UNCHANGED <<exchange_vars, tick, trades_this_tick, worker_vars,
                 mpi_vars, log_vars>>

\* Variant: the books take the global prices as their last prices.
update_global_prices_adopt(books, prices) ==
  [i \in Instruments |-> [books[i] EXCEPT !.last_price = prices[i]]]

\* Exchange::update_global_prices: the books as the call leaves them.  The
\* body only casts its argument to void.
update_global_prices(books, prices) == books

\* main calls update_global_prices with the vector broadcast_prices returned.
UpdateGlobalPrices(n) ==
  /\ mpc[n] = "update_global"
  /\ order_books' = [order_books EXCEPT ![n] = update_global_prices(@, global_prices[n])]
  /\ mpc' = [mpc EXCEPT ![n] = "barrier"]
  /\ UNCHANGED <<pending_orders, order_mutex, trade_log, next_order_id,
                 tick, trades_this_tick, global_prices,
                 worker_vars, mpi_vars, log_vars>>

\* MPI_Barrier(MPI_COMM_WORLD): the rank enters the barrier.
EnterBarrier(n) ==
  /\ mpc[n] = "barrier"
  /\ barrier_calls' = [barrier_calls EXCEPT ![n] = @ + 1]
  /\ mpc' = [mpc EXCEPT ![n] = "in_barrier"]
  /\ UNCHANGED <<exchange_vars, tick, trades_this_tick, global_prices,
                 worker_vars, reduce_calls, log_vars>>

\* MPI_Barrier returns.
LeaveBarrier(n) ==
  /\ mpc[n] = "in_barrier"
  /\ BarrierComplete(n)
  /\ mpc' = [mpc EXCEPT ![n] = "end_tick"]
  /\ UNCHANGED <<exchange_vars, tick, trades_this_tick, global_prices,
                 worker_vars, mpi_vars, log_vars>>

\* Variant: the comparison is the wrong way round.
loop_test_inverted(t) == t > SimulationTicks

\* The condition of the for loop of main: tick < SIMULATION_TICKS.
loop_test(t) == t < SimulationTicks

\* ++tick and the loop test.
EndTick(n) ==
  /\ mpc[n] = "end_tick"
  /\ tick' = [tick EXCEPT ![n] = @ + 1]
  /\ mpc' = [mpc EXCEPT ![n] = IF loop_test(tick[n] + 1) THEN "fork" ELSE "done"]
  /\ UNCHANGED <<exchange_vars, trades_this_tick, global_prices,
                 worker_vars, mpi_vars, log_vars>>

\* int tick = 0 and the first loop test.
Init == InitOf(Workers, IF loop_test(0) THEN "fork" ELSE "done")

Next ==
  \/ \E n \in Nodes : Fork(n)
  \/ \E n \in Nodes, w \in Workers : Observe(n, w)
  \/ \E n \in Nodes, w \in Workers : SubmitLock(n, w)
  \/ \E n \in Nodes, w \in Workers : SubmitWrite(n, w)
  \/ \E n \in Nodes : Join(n)
  \/ \E n \in Nodes : ProcessLock(n)
  \/ \E n \in Nodes : ProcessUnlock(n)
  \/ \E n \in Nodes : ProcessMatch(n)
  \/ \E n \in Nodes : EnterAllreduce(n)
  \/ \E n \in Nodes : LeaveAllreduce(n)
  \/ \E n \in Nodes : UpdateGlobalPrices(n)
  \/ \E n \in Nodes : EnterBarrier(n)
  \/ \E n \in Nodes : LeaveBarrier(n)
  \/ \E n \in Nodes : EndTick(n)

Spec == Init /\ [][Next]_vars

\* The steps of the main thread of rank n.
MainStep(n) ==
  \/ Fork(n) \/ Join(n)
  \/ ProcessLock(n) \/ ProcessUnlock(n) \/ ProcessMatch(n)
  \/ EnterAllreduce(n) \/ LeaveAllreduce(n) \/ UpdateGlobalPrices(n)
  \/ EnterBarrier(n) \/ LeaveBarrier(n) \/ EndTick(n)

\* An agent's draws come from a mt19937 seeded with its agent_id, so in one
\* run the quote an agent picks is a function of the agent and the snapshot
\* it is given.  One such run: the agent takes the buy quote when agent_id
\* plus tick is even and the sell quote otherwise (the market maker, which
\* quotes both sides, is not restricted).
seeded_quote(agent_id, timestamp) ==
  CHOOSE q \in StrategyQuotes : q.is_buy = ((agent_id + timestamp) % 2 = 0)

\* The worker's block of the parallel region in that run.
ObserveSeeded(n, w) ==
  /\ Observe(n, w)
  /\ (w % 4 # MARKET_MAKER) =>
       LET q == seeded_quote(n * NumAgents + w, tick[n])
       IN \A k \in DOMAIN worders'[n][w] :
            /\ worders'[n][w][k].is_buy = q.is_buy
            /\ worders'[n][w][k].price = q.price
            /\ worders'[n][w][k].volume = q.volume

\* The steps of worker thread w of rank n in that run.
SeededWorkerStep(n, w) ==
  ObserveSeeded(n, w) \/ SubmitLock(n, w) \/ SubmitWrite(n, w)

NextSeeded ==
  \/ \E n \in Nodes : MainStep(n)
  \/ \E n \in Nodes, w \in Workers : SeededWorkerStep(n, w)

\* Every thread that can keep taking a step eventually takes one: the main
\* thread of each rank and each thread of its OpenMP team are scheduled by
\* the operating system, and nothing in the program suspends one for good.
\* The mutex promises no order among its waiters, so a waiter is only
\* served once the mutex stays free.
FairSpec ==
  /\ Init /\ [][NextSeeded]_vars
  /\ \A n \in Nodes : WF_vars(MainStep(n))
  /\ \A n \in Nodes : \A w \in Workers : WF_vars(SeededWorkerStep(n, w))


\* ------------------------------------------------ phases of the tick loop
\* The phase of rank n's current tick, read off the position of main.
Phase(n) ==
  CASE mpc[n] \in {"fork", "join"} -> "GENERATING"
    [] mpc[n] \in {"process", "drained", "match"} -> "MATCHING"
    [] mpc[n] \in {"sync", "in_allreduce", "update_global"} -> "SYNCING"
    [] mpc[n] \in {"barrier", "in_barrier", "end_tick"} -> "BARRIER"
    [] OTHER -> "DONE"

\* Rank n has called the MPI_Allreduce (resp. MPI_Barrier) of tick T.
CalledAllreduce(n, T) ==
  \/ tick[n] > T
  \/ /\ tick[n] = T
     /\ mpc[n] \in {"in_allreduce", "update_global", "barrier", "in_barrier", "end_tick"}

CalledBarrier(n, T) ==
  \/ tick[n] > T
  \/ tick[n] = T /\ mpc[n] \in {"in_barrier", "end_tick"}

\* Rank n has returned from the MPI_Allreduce (resp. MPI_Barrier) of tick T.
ReturnedAllreduce(n, T) ==
  \/ tick[n] > T
  \/ tick[n] = T /\ mpc[n] \in {"update_global", "barrier", "in_barrier", "end_tick"}

ReturnedBarrier(n, T) ==
  \/ tick[n] > T
  \/ tick[n] = T /\ mpc[n] = "end_tick"

\* The workers of rank n's parallel region are running: the GENERATING
\* phase of tick[n] has started.
Generating(n) == mpc[n] = "join"

\* ------------------------------------------------------------------ C1
\* C1 as stated: whenever a rank m is generating for tick T+1, every rank n
\* has completed (returned from) the barrier of tick T.
C1_GeneratingAfterAllCompletedBarrier ==
  \A m \in Nodes, n \in Nodes :
    (Generating(m) /\ tick[m] >= 1) => ReturnedBarrier(n, tick[m] - 1)

\* C1 amended: whenever a rank m is generating for tick T+1, every rank n has
\* entered the barrier of tick T, and so has finished its generating,
\* matching and syncing of tick T.
C1_GeneratingAfterAllEnteredBarrier ==
  \A m \in Nodes, n \in Nodes :
    (Generating(m) /\ tick[m] >= 1) => CalledBarrier(n, tick[m] - 1)

\* A rank generates for tick 1 while another is still inside the barrier
\* of tick 0.
C1_Witness ==
  \E m \in Nodes, n \in Nodes :
    /\ Generating(m) /\ tick[m] = 1
    /\ \E w \in Workers : wpc[m][w] = "locked"
    /\ tick[n] = 0 /\ mpc[n] = "in_barrier"

\* ------------------------------------------------------------------ C7
\* C7: when a rank has returned from the aggregate of a tick, the vector it
\* received holds, at every position, the sum over all ranks of the last
\* price that rank's matching of this tick left, divided by the number of
\* ranks; two ranks that have returned from the same aggregate hold the
\* same vector.
C7_AggregateIsMeanOfLastPrices ==
  \A n \in Nodes :
    mpc[n] \in {"update_global", "barrier"} =>
      /\ DOMAIN global_prices[n] = Instruments
      /\ \A i \in Instruments :
           global_prices[n][i] * NumNodes =
             SumOver([m \in Nodes |-> order_books[m][i].last_price], Nodes)
      /\ \A m \in Nodes :
           (mpc[m] \in {"update_global", "barrier"} /\ tick[m] = tick[n])
             => global_prices[m] = global_prices[n]

\* A rank holds an aggregate that differs from the last price of every
\* rank: the ranks traded at different prices.
C7_Witness ==
  \E n \in Nodes, i \in Instruments :
    /\ mpc[n] = "update_global"
    /\ \A m \in Nodes : global_prices[n][i] # order_books[m][i].last_price
    /\ \E m \in Nodes : trade_log[m] # <<>>

\* ------------------------------------------------------------------ C8
\* C8: a rank that has returned from the aggregate (resp. the barrier) of
\* tick T, or is in a later tick, finds every rank having called the
\* aggregate (resp. the barrier) of tick T.  So while one rank has not
\* reached a collective, no rank is past it: nothing else lets a rank out.
C8_NoUnilateralProgress ==
  \A n \in Nodes, m \in Nodes, T \in 0 .. SimulationTicks - 1 :
    /\ ReturnedAllreduce(n, T) => CalledAllreduce(m, T)
    /\ ReturnedBarrier(n, T) => CalledBarrier(m, T)

\* A rank is back from the aggregate of tick 1 while another is still
\* blocked in it.
C8_Witness ==
  \E n \in Nodes, m \in Nodes :
       /\ tick[n] = 1 /\ mpc[n] = "update_global"
       /\ tick[m] = 1 /\ mpc[m] = "in_allreduce"

\* ------------------------------------------------------------------ C9
\* The successor of each phase within the loop.
NextPhase(ph) ==
  CASE ph = "GENERATING" -> "MATCHING"
    [] ph = "MATCHING" -> "SYNCING"
    [] ph = "SYNCING" -> "BARRIER"
    [] OTHER -> "NONE"

\* One step of rank n keeps to the order of the phases: within a tick the
\* phase only moves to its successor; the tick changes only out of BARRIER,
\* by one, into GENERATING or DONE.
C9_PhaseStep(n) ==
  /\ tick'[n] = tick[n] =>
       \/ Phase(n)' = Phase(n)
       \/ Phase(n)' = NextPhase(Phase(n))
  /\ tick'[n] # tick[n] =>
       /\ tick'[n] = tick[n] + 1
       /\ Phase(n) = "BARRIER"
       /\ Phase(n)' = IF tick'[n] < SimulationTicks THEN "GENERATING" ELSE "DONE"

\* In every state: process_orders has been called once for every finished
\* tick and once more if the current tick is past the start of MATCHING;
\* while it runs, and through the rest of the tick, every worker of the
\* tick has finished; and a worker inside its block means main is waiting
\* at the join.
C9_PhaseState(n) ==
  /\ process_calls[n] =
       tick[n] + (IF mpc[n] \in {"fork", "join", "process", "done"} THEN 0 ELSE 1)
  /\ Phase(n) \in {"MATCHING", "SYNCING", "BARRIER"}
       => \A w \in Workers : wpc[n][w] = "done"
  /\ (\E w \in Workers : wpc[n][w] \in {"observe", "submit", "locked"})
       => mpc[n] = "join"
  /\ Phase(n) = "DONE" <=> tick[n] = SimulationTicks

\* C9: on every rank each tick runs GENERATING, MATCHING, SYNCING, BARRIER
\* in this order, none skipped or repeated; process_orders is called exactly
\* once per tick, after every worker of the tick has finished, so that no
\* submit_order overlaps it.
C9_PhaseOrder ==
  /\ [](\A n \in Nodes : C9_PhaseState(n))
  /\ [][\A n \in Nodes : C9_PhaseStep(n)]_vars

\* A rank is inside process_orders of tick 1 with orders of both workers
\* drained from the queue.
C9_Witness ==
  \E n \in Nodes :
    /\ tick[n] = 1 /\ mpc[n] = "drained"
    /\ process_calls[n] = 2
    /\ Len(intake_log[n]) = 2 * NumAgents


\* ------------------------------------------- reading the observation logs
Range(s) == {s[k] : k \in DOMAIN s}

\* An order as the caller passed it: its order_id still 0.
Unnumbered(o) == [o EXCEPT !.order_id = 0]

\* The volume that fills number from .. to of log fl executed against the
\* order with the given id.
FilledBetween(fl, id, from, to) ==
  SumSeq([k \in 1 .. Len(fl) |->
            IF k >= from /\ k <= to
               /\ (fl[k].buy.order_id = id \/ fl[k].sell.order_id = id)
            THEN fl[k].volume ELSE 0])

\* The volume all trades so far executed against order id of rank n.
FilledVolume(n, id) == FilledBetween(fill_log[n], id, 1, Len(fill_log[n]))

\* A step of rank n that is a matching pass.
MatchStep(n) == mpc[n] = "match" /\ mpc'[n] = "sync"

\* ------------------------------------------------------------------ C2
\* C2: the orders enter the intake queue with strictly increasing, hence
\* distinct, order_ids; every order passed to submit_order is enqueued once,
\* as passed but for its id, and a call that has not yet pushed is the only
\* reason for an order to be missing; the queue is what was pushed since
\* the last drain.
C2_UniqueIncreasingIds ==
  LET pushed == intake_log[0]
      inside == {w \in Callers : wpc[0][w] = "locked"}
  IN /\ \A j, k \in 1 .. Len(pushed) :
          j < k => pushed[j].order_id < pushed[k].order_id
     /\ Len(call_log[0]) = Len(pushed) + Cardinality(inside)
     /\ \A k \in 1 .. Len(pushed) : Unnumbered(pushed[k]) = call_log[0][k]
     /\ Len(pending_orders[0]) <= Len(pushed)
     /\ pending_orders[0] =
          SubSeq(pushed, Len(pushed) - Len(pending_orders[0]) + 1, Len(pushed))

\* Both callers have submitted and MaxOrders orders were pushed in all.
C2_Witness ==
  /\ \A w \in Callers : wpc[0][w] = "done"
  /\ Len(intake_log[0]) = MaxOrders
  /\ Len(pending_orders[0]) >= 2

\* ------------------------------------------------------------------ C3
\* C3: once process_orders has matched, in every book every resting buy
\* price is strictly below every resting sell price (or a side is empty).
C3_NoCrossedBook ==
  mpc[0] = "sync" =>
    \A i \in Instruments :
      \A b \in Range(order_books[0][i].bids), a \in Range(order_books[0][i].asks) :
        b.price < a.price

\* After a pass that traded, a book rests orders on both sides.
C3_Witness ==
  /\ mpc[0] = "sync"
  /\ trades_this_tick[0] > 0
  /\ \E i \in Instruments :
       order_books[0][i].bids # <<>> /\ order_books[0][i].asks # <<>>

\* ------------------------------------------------------------------ C4
\* Order x has priority over order y on the buy (resp. sell) side.
BuyPriority(x, y) ==
  x.price > y.price \/ (x.price = y.price /\ x.timestamp < y.timestamp)

SellPriority(x, y) ==
  x.price < y.price \/ (x.price = y.price /\ x.timestamp < y.timestamp)

\* In a matching pass, whenever an order is filled, every order that was in
\* its side of the book at the start of the pass with priority over it has
\* been filled in full by the earlier fills of the pass.
C4_PriorityStep ==
  MatchStep(0) =>
    LET before == Len(fill_log[0])
        fl == fill_log'[0]
    IN \A k \in before + 1 .. Len(fl) :
         LET book == order_books[0][fl[k].buy.instrument_id]
         IN /\ \A x \in Range(book.bids) :
                 BuyPriority(x, fl[k].buy) =>
                   FilledBetween(fl, x.order_id, before + 1, k - 1) = x.volume
            /\ \A x \in Range(book.asks) :
                 SellPriority(x, fl[k].sell) =>
                   FilledBetween(fl, x.order_id, before + 1, k - 1) = x.volume

\* Scenario B has been run: exactly the two buys 5@100 of ticks 0 and 1 and
\* the sell 7@100 of tick 2 were submitted, and one process_orders call
\* then drained and matched them.
ScenarioB_Run ==
  /\ Len(intake_log[0]) = 3
  /\ {Unnumbered(o) : o \in Range(intake_log[0])} =
       { Order(3, 0, Px(100), 5, TRUE, 0),
         Order(4, 0, Px(100), 5, TRUE, 1),
         Order(5, 0, Px(100), 7, FALSE, 2) }
  /\ pending_orders[0] = <<>>
  /\ process_calls[0] = 1
  /\ mpc[0] = "sync"

\* Its outcome: the tick-0 buy filled for 5, then the tick-1 buy for 2,
\* which rests with 3; the sell is gone.
ScenarioB_Outcome ==
  /\ trade_log[0] = << Trade(3, 5, 0, Px(100), 5, 0), Trade(4, 5, 0, Px(100), 2, 0) >>
  /\ Len(order_books[0][0].bids) = 1
  /\ Unnumbered(order_books[0][0].bids[1]) = Order(4, 0, Px(100), 3, TRUE, 1)
  /\ order_books[0][0].asks = <<>>

\* C4: price-time priority within a pass, and Scenario B.
C4_PriceTimePriority ==
  /\ [][C4_PriorityStep]_vars
  /\ [](ScenarioB_Run => ScenarioB_Outcome)

C4_Witness == ScenarioB_Run /\ ScenarioB_Outcome

\* ------------------------------------------------------------------ C5
\* Every trade executed at most the smaller of the two remaining volumes.
C5_TradeWithinRemaining ==
  \A k \in 1 .. Len(fill_log[0]) :
    LET f == fill_log[0][k]
    IN /\ f.volume <= f.buy.volume
       /\ f.volume <= f.sell.volume
       /\ trade_log[0][k].volume = f.volume

\* C5 as stated: the above, and for every order ever enqueued the volume
\* executed against it does not exceed the volume it was submitted with.
C5_VolumeConservationAllOrders ==
  /\ C5_TradeWithinRemaining
  /\ \A o \in Range(intake_log[0]) : FilledVolume(0, o.order_id) <= o.volume

\* C5 amended: the same for every order submitted with a volume >= 0.
C5_VolumeConservation ==
  /\ C5_TradeWithinRemaining
  /\ \A o \in Range(intake_log[0]) :
       o.volume >= 0 => FilledVolume(0, o.order_id) <= o.volume

\* An order has been filled in full by trades of two different passes.
C5_Witness ==
  \E o \in Range(intake_log[0]) :
    /\ o.volume > 0
    /\ FilledVolume(0, o.order_id) = o.volume
    /\ \E j, k \in 1 .. Len(fill_log[0]) :
         /\ fill_log[0][j].pass # fill_log[0][k].pass
         /\ o.order_id \in {fill_log[0][j].buy.order_id, fill_log[0][j].sell.order_id}
         /\ o.order_id \in {fill_log[0][k].buy.order_id, fill_log[0][k].sell.order_id}
         /\ fill_log[0][j].volume > 0 /\ fill_log[0][k].volume > 0

\* ------------------------------------------------------------------ C6
\* Every trade in the ledger is between the agents of the two orders its
\* iteration compared, for their instrument, of volume the smaller of their
\* remaining volumes, at the midpoint of their limit prices, which lies
\* between the ask and the bid.
C6_TradeShape ==
  /\ Len(trade_log[0]) = Len(fill_log[0])
  /\ \A k \in 1 .. Len(trade_log[0]) :
       LET t == trade_log[0][k]
           f == fill_log[0][k]
       IN /\ t.buy_agent_id = f.buy.agent_id
          /\ t.sell_agent_id = f.sell.agent_id
          /\ t.instrument_id = f.buy.instrument_id
          /\ t.instrument_id = f.sell.instrument_id
          /\ t.volume = Min(f.buy.volume, f.sell.volume)
          /\ 2 * t.price = f.buy.price + f.sell.price
          /\ f.sell.price <= t.price /\ t.price <= f.buy.price

\* The trades of a pass carry the tick passed to process_orders, and each
\* pairs a best buy with a best sell: every order of the book with a
\* strictly better price has been filled in full earlier in the pass.
C6_BestPairStep ==
  MatchStep(0) =>
    LET before == Len(fill_log[0])
        fl == fill_log'[0]
    IN /\ Len(trade_log'[0]) = Len(fl)
       /\ SubSeq(trade_log'[0], 1, Len(trade_log[0])) = trade_log[0]
       /\ \A k \in before + 1 .. Len(fl) :
            LET book == order_books[0][fl[k].buy.instrument_id]
            IN /\ trade_log'[0][k].timestamp = tick[0]
               /\ \A x \in Range(book.bids) :
                    x.price > fl[k].buy.price =>
                      FilledBetween(fl, x.order_id, before + 1, k - 1) = x.volume
               /\ \A x \in Range(book.asks) :
                    x.price < fl[k].sell.price =>
                      FilledBetween(fl, x.order_id, before + 1, k - 1) = x.volume

\* Scenario A has been run: exactly the buy 10@101 and the sell 10@99 were
\* submitted, and one process_orders call then drained and matched them.
ScenarioA_Run ==
  /\ Len(intake_log[0]) = 2
  /\ {Unnumbered(o) : o \in Range(intake_log[0])} =
       { Order(1, 0, Px(101), 10, TRUE, 0), Order(2, 0, Px(99), 10, FALSE, 1) }
  /\ pending_orders[0] = <<>>
  /\ process_calls[0] = 1
  /\ mpc[0] = "sync"

\* Its outcome: one trade of 10 at 100 and an empty book.
ScenarioA_Outcome ==
  /\ trade_log[0] = << Trade(1, 2, 0, Px(100), 10, 0) >>
  /\ order_books[0][0].bids = <<>>
  /\ order_books[0][0].asks = <<>>

\* C6: the shape of every trade, the pairing within a pass, and Scenario A.
C6_TradeIsBestPairAtMidpoint ==
  /\ [](C6_TradeShape /\ (ScenarioA_Run => ScenarioA_Outcome))
  /\ [][C6_BestPairStep]_vars

C6_Witness == ScenarioA_Run /\ ScenarioA_Outcome

\* ------------------------------------------------------------------ C10
\* The orders of queue q bound for side buy of instrument i, in queue order.
BoundFor(q, i, buy) ==
  LET Goes(o) == o.instrument_id = i /\ o.is_buy = buy
  IN SelectSeq(q, Goes)

\* The locked block of process_orders empties the queue and appends every
\* queued order to the side it names of the book of its instrument, and
\* changes nothing else of any book.
C10_DrainStep ==
  (mpc[0] = "process" /\ mpc'[0] = "drained") =>
    /\ pending_orders'[0] = <<>>
    /\ \A i \in Instruments :
         /\ order_books'[0][i].bids =
              order_books[0][i].bids \o BoundFor(pending_orders[0], i, TRUE)
         /\ order_books'[0][i].asks =
              order_books[0][i].asks \o BoundFor(pending_orders[0], i, FALSE)
         /\ order_books'[0][i].last_price = order_books[0][i].last_price
         /\ order_books'[0][i].price_history = order_books[0][i].price_history

\* The places (instrument, side, index) where order id rests on rank n.
RestingPlaces(n, id) ==
  UNION {{<<i, "bids", k>> : k \in {j \in DOMAIN order_books[n][i].bids :
                                       order_books[n][i].bids[j].order_id = id}} \cup
         {<<i, "asks", k>> : k \in {j \in DOMAIN order_books[n][i].asks :
                                       order_books[n][i].asks[j].order_id = id}} :
         i \in Instruments}

\* Order o has been matched in full: a trade brought its volume to 0.
FullyMatched(n, o) ==
  \E k \in 1 .. Len(fill_log[n]) :
    LET f == fill_log[n][k]
    IN \/ f.buy.order_id = o.order_id /\ f.buy.volume - f.volume = 0
       \/ f.sell.order_id = o.order_id /\ f.sell.volume - f.volume = 0

\* Once process_orders is past its locked block, every order enqueued and
\* no longer queued, whose instrument has a book, either rests at exactly
\* one place, on its own side of the book of its own instrument, or rests
\* nowhere and has been matched in full.
C10_Routed ==
  mpc[0] \in {"drained", "match", "sync"} =>
    \A k \in 1 .. Len(intake_log[0]) - Len(pending_orders[0]) :
      LET o == intake_log[0][k]
          places == RestingPlaces(0, o.order_id)
      IN in_range(o.instrument_id) =>
           \/ /\ Cardinality(places) = 1
              /\ \A pl \in places :
                   /\ pl[1] = o.instrument_id
                   /\ pl[2] = (IF o.is_buy THEN "bids" ELSE "asks")
           \/ places = {} /\ FullyMatched(0, o)

\* C10: process_orders drains the whole queue into the right books.
C10_DrainsWholeQueue ==
  /\ [][C10_DrainStep]_vars
  /\ [](C10_Routed)

\* A drain has just moved three queued orders into the books of both
\* instruments.
C10_Witness ==
  /\ mpc[0] = "drained"
  /\ pending_orders[0] = <<>>
  /\ Len(intake_log[0]) = 3
  /\ process_calls[0] = 1
  /\ order_books[0][0].bids # <<>>
  /\ order_books[0][1].asks # <<>>

\* ------------------------------------------------------------------ C11
\* The orders of sequence q whose instrument has a book.
Routable(q) ==
  LET HasBook(o) == in_range(o.instrument_id)
  IN SelectSeq(q, HasBook)

\* Every order pushed, whatever its instrument_id, took the next order_id,
\* and the counter has moved past it.
C11_Accepted ==
  /\ \A k \in 1 .. Len(intake_log[0]) :
       intake_log[0][k].order_id = FirstOrderId + k - 1
  /\ next_order_id[0] = FirstOrderId + Len(intake_log[0])

\* An order whose instrument_id has no book is in the queue until the next
\* drain and nowhere afterwards: it rests in no book, no fill names it and
\* no trade carries its instrument_id.
C11_Dropped ==
  \A k \in 1 .. Len(intake_log[0]) :
    LET o == intake_log[0][k]
    IN ~in_range(o.instrument_id) =>
         /\ RestingPlaces(0, o.order_id) = {}
         /\ \A j \in 1 .. Len(fill_log[0]) :
              o.order_id \notin {fill_log[0][j].buy.order_id, fill_log[0][j].sell.order_id}
         /\ \A j \in 1 .. Len(trade_log[0]) :
              trade_log[0][j].instrument_id # o.instrument_id
         /\ (k <= Len(intake_log[0]) - Len(pending_orders[0])) =>
              \A j \in 1 .. Len(pending_orders[0]) : pending_orders[0][j] # o

\* The drain removes such an order from the queue with no other effect:
\* the books grow by the routable orders of the queue only, prices and
\* histories, the ledger and the return value of the last call stay.
C11_DropStep ==
  (mpc[0] = "process" /\ mpc'[0] = "drained") =>
    /\ pending_orders'[0] = <<>>
    /\ \A i \in Instruments :
         /\ order_books'[0][i].bids =
              order_books[0][i].bids \o BoundFor(Routable(pending_orders[0]), i, TRUE)
         /\ order_books'[0][i].asks =
              order_books[0][i].asks \o BoundFor(Routable(pending_orders[0]), i, FALSE)
         /\ order_books'[0][i].last_price = order_books[0][i].last_price
         /\ order_books'[0][i].price_history = order_books[0][i].price_history
    /\ trade_log'[0] = trade_log[0]
    /\ trades_this_tick'[0] = trades_this_tick[0]
    /\ (Routable(pending_orders[0]) = <<>>) => order_books'[0] = order_books[0]

\* C11: an order with an instrument_id below 0 or not below the number of
\* instruments is accepted by submit_order (it takes an order_id and is
\* enqueued) and dropped by process_orders: removed from the queue, added to
\* no book, in no trade, with no change of a last_price or price_history.
C11_OutOfRangeDropped ==
  /\ [](C11_Accepted /\ C11_Dropped)
  /\ [][C11_DropStep]_vars

\* process_orders has returned after draining a queue that held an order
\* with a negative instrument_id, one with instrument_id NumInstruments and
\* an order that now rests in its book.
C11_Witness ==
  /\ mpc[0] = "sync"
  /\ pending_orders[0] = <<>>
  /\ \E j, k \in 1 .. Len(intake_log[0]) :
       /\ intake_log[0][j].instrument_id < 0
       /\ intake_log[0][k].instrument_id >= NumInstruments
       /\ intake_log[0][j].order_id < intake_log[0][k].order_id
  /\ \E i \in Instruments : order_books[0][i].bids # <<>>
  /\ next_order_id[0] = FirstOrderId + 3

\* ------------------------------------------------------------------ C12
\* The trades of sequence q for instrument i, in the order of q.
TradesOf(q, i) ==
  LET Is(t) == t.instrument_id = i
  IN SelectSeq(q, Is)

\* What one step of rank n does to the ledger.  Every step keeps the ledger
\* it found as a prefix.  A step that is not the matching of process_orders
\* leaves the ledger and the last return value alone.  The matching appends,
\* for book 0, then book 1, ..., the trades of one match_orders call on that
\* book as it stood, which also leaves the book as that call left it, and
\* returns the number of trades appended.
C12_LedgerStep(n) ==
  LET old == trade_log[n]
      new == trade_log'[n]
      appended == SubSeq(new, Len(old) + 1, Len(new))
  IN /\ Len(new) >= Len(old)
     /\ SubSeq(new, 1, Len(old)) = old
     /\ ~MatchStep(n) =>
          /\ new = old
          /\ trades_this_tick'[n] = trades_this_tick[n]
     /\ MatchStep(n) =>
          /\ trades_this_tick'[n] = Len(appended)
          /\ \A j, k \in 1 .. Len(appended) :
               j < k => appended[j].instrument_id <= appended[k].instrument_id
          /\ \A k \in 1 .. Len(appended) : in_range(appended[k].instrument_id)
          /\ \A i \in Instruments :
               \E r \in match_orders(order_books[n][i], tick[n]) :
                 /\ r.trades = TradesOf(appended, i)
                 /\ r.book = order_books'[n][i]

C13_EmptySideStep ==
  MatchStep(0) =>
    LET appended == SubSeq(trade_log'[0], Len(trade_log[0]) + 1, Len(trade_log'[0]))
    IN \A i \in Instruments :
         LET book == order_books[0][i]
             after == order_books'[0][i]
         IN (book.bids = <<>> \/ book.asks = <<>>) =>
              /\ TradesOf(appended, i) = <<>>
              /\ after.last_price = book.last_price
              /\ after.price_history = book.price_history
              /\ Len(after.bids) = Len(book.bids)
              /\ Range(after.bids) = Range(book.bids)
              /\ Len(after.asks) = Len(book.asks)
              /\ Range(after.asks) = Range(book.asks)

\* A matching pass over an exchange whose books are all empty returns 0 and
\* leaves the exchange as it was.
C13_EmptyBooksStep ==
  (MatchStep(0) /\ \A i \in Instruments :
                     order_books[0][i].bids = <<>> /\ order_books[0][i].asks = <<>>) =>
    /\ trades_this_tick'[0] = 0
    /\ exchange_vars' = exchange_vars

\* Scenario C: process_orders has returned and no order was ever enqueued.
\* The exchange is as constructed and the call returned 0.
C13_ScenarioC ==
  (mpc[0] = "sync" /\ intake_log[0] = <<>>) =>
    /\ trades_this_tick[0] = 0
    /\ order_books[0] = NewOrderBooks
    /\ trade_log[0] = <<>>
    /\ pending_orders[0] = <<>>
    /\ next_order_id[0] = FirstOrderId

\* C13: matching a book with an empty side is a no-op, and process_orders on
\* an exchange with an empty queue and empty books returns 0 and changes
\* nothing.
C13_EmptySideNoOp ==
  /\ [][C13_EmptySideStep /\ C13_EmptyBooksStep]_vars
  /\ [](C13_ScenarioC)

\* Two passes have matched a book that holds two buys and no sell; the buys
\* rest in priority order, not in the order they arrived, and nothing was
\* traded.
C13_Witness ==
  /\ mpc[0] = "sync"
  /\ process_calls[0] = 2
  /\ trade_log[0] = <<>>
  /\ order_books[0][0].asks = <<>>
  /\ Len(order_books[0][0].bids) = 2
  /\ order_books[0][0].bids[1].order_id > order_books[0][0].bids[2].order_id
  /\ order_books[0][0].bids[1].volume > 0
  /\ order_books[0][0].last_price = SeedPrice

\* ------------------------------------------------------------------ C14
\* While rank n is in its SYNCING phase no step changes its books, ledger,
\* intake queue or order-id counter; this covers update_global_prices,
\* whatever vector it is given.
C14_SyncingStep(n) ==
  Phase(n) = "SYNCING" =>
    /\ order_books'[n] = order_books[n]
    /\ trade_log'[n] = trade_log[n]
    /\ pending_orders'[n] = pending_orders[n]
    /\ next_order_id'[n] = next_order_id[n]

\* A step that changes the last_price of a book of rank n is that rank's
\* matching pass, and the new price is the price of the last trade the pass
\* appended for the instrument.
C14_PriceStep(n) ==
  \A i \in Instruments :
    order_books'[n][i].last_price # order_books[n][i].last_price =>
      /\ MatchStep(n)
      /\ LET appended == TradesOf(SubSeq(trade_log'[n], Len(trade_log[n]) + 1,
                                         Len(trade_log'[n])), i)
         IN /\ appended # <<>>
            /\ order_books'[n][i].last_price = appended[Len(appended)].price

\* C14: the SYNCING phase never changes a rank's local market state, and a
\* last_price changes only through a trade in the rank's own book.
C14_SyncingKeepsLocalState ==
  [][\A n \in Nodes : C14_SyncingStep(n) /\ C14_PriceStep(n)]_vars

\* update_global_prices has returned on a rank that was given a global
\* price different from its own last price, which a trade of its own set.
C14_Witness ==
  \E n \in Nodes, i \in Instruments :
    /\ mpc[n] = "barrier"
    /\ global_prices[n][i] # order_books[n][i].last_price
    /\ order_books[n][i].last_price # SeedPrice
    /\ TradesOf(trade_log[n], i) # <<>>

\* ------------------------------------------------------------------ C15
\* A rank that has left the loop has run SimulationTicks ticks: its loop
\* variable stands at SimulationTicks and it called process_orders,
\* MPI_Allreduce and MPI_Barrier that many times.
C15_DoneAfterAllTicks ==
  \A n \in Nodes :
    mpc[n] = "done" =>
      /\ tick[n] = SimulationTicks
      /\ process_calls[n] = SimulationTicks
      /\ Len(reduce_calls[n]) = SimulationTicks
      /\ barrier_calls[n] = SimulationTicks

\* Every rank has left the loop.
AllDone == \A n \in Nodes : mpc[n] = "done"

\* C15: when every thread keeps taking steps, every rank eventually leaves
\* the loop, and a rank leaves it after exactly SimulationTicks ticks, so
\* all ranks run the same number of ticks.
C15_RunTerminates ==
  /\ <>[]AllDone
  /\ []C15_DoneAfterAllTicks

\* All ranks are done, each after SimulationTicks matching passes, and at
\* least one of them traded.
C15_Witness ==
  /\ AllDone
  /\ \A n \in Nodes : process_calls[n] = SimulationTicks
  /\ \E n \in Nodes : trade_log[n] # <<>>

\* ------------------------------------------------------------------ C16
\* An order with a price or a volume that is not positive.
Unvalidated(o) == o.price <= 0 \/ o.volume <= 0

\* No call of submit_order is refused: every order passed, whatever its
\* price and volume, is pushed as passed with the next order_id, unless its
\* call still holds the mutex.
C16_NeverRejected ==
  /\ Len(call_log[0]) =
       Len(intake_log[0]) + Cardinality({w \in Callers : wpc[0][w] = "locked"})
  /\ \A k \in 1 .. Len(intake_log[0]) :
       intake_log[0][k] = [call_log[0][k] EXCEPT !.order_id = FirstOrderId + k - 1]

\* The drain puts every queued order whose instrument has a book on the
\* side it names of that book, an order with a non-positive price or volume
\* as any other.
C16_RoutedStep ==
  (mpc[0] = "process" /\ mpc'[0] = "drained") =>
    \A o \in Range(pending_orders[0]) :
      in_range(o.instrument_id) =>
        LET after == order_books'[0][o.instrument_id]
        IN o \in Range(IF o.is_buy THEN after.bids ELSE after.asks)

\* The matching pass offers such an order to matching as any other: after
\* the pass either a fill of the pass names it, or it still rests on its
\* side and crosses no order resting on the other side.
C16_OfferedStep ==
  MatchStep(0) =>
    LET fl == SubSeq(fill_log'[0], Len(fill_log[0]) + 1, Len(fill_log'[0]))
    IN \A i \in Instruments :
         LET book == order_books[0][i]
             after == order_books'[0][i]
         IN /\ \A x \in Range(book.bids) :
                 Unvalidated(x) =>
                   \/ \E k \in 1 .. Len(fl) : fl[k].buy.order_id = x.order_id
                   \/ /\ x \in Range(after.bids)
                      /\ \A a \in Range(after.asks) : x.price < a.price
            /\ \A x \in Range(book.asks) :
                 Unvalidated(x) =>
                   \/ \E k \in 1 .. Len(fl) : fl[k].sell.order_id = x.order_id
                   \/ /\ x \in Range(after.asks)
                      /\ \A b \in Range(after.bids) : b.price < x.price

\* C16: submit_order validates neither price nor volume: an order with a
\* non-positive price or volume gets an order_id, is enqueued, routed into
\* the book of its instrument and offered to matching like any other.
C16_NoValidation ==
  /\ [](C16_NeverRejected)
  /\ [][C16_RoutedStep /\ C16_OfferedStep]_vars

\* A sell at price 0 has traded a positive volume, and a buy of volume -1
\* has traded too.
C16_Witness ==
  /\ mpc[0] = "sync"
  /\ \E j, k \in 1 .. Len(fill_log[0]) :
       /\ fill_log[0][j].sell.price <= 0
       /\ fill_log[0][j].volume > 0
       /\ fill_log[0][k].buy.volume < 0
       /\ trade_log[0][k].volume < 0

\* ------------------------------------------------------------------ C17
\* What a book holds, apart from the positions of the orders in the two
\* vectors and the order_ids: two orders that the same agent submitted with
\* the same fields count as the same order.
BookContent(book) ==
  [bids |-> {Unnumbered(o) : o \in Range(book.bids)},
   asks |-> {Unnumbered(o) : o \in Range(book.asks)},
   last_price |-> book.last_price, price_history |-> book.price_history]

C18_HistoryIsSeedThenTrades ==
  \A i \in Instruments :
    LET h == order_books[0][i].price_history
        trades == TradesOf(trade_log[0], i)
    IN /\ Len(h) >= 1
       /\ h[1] = SeedPrice
       /\ Len(h) = 1 + Len(trades)
       /\ \A k \in 1 .. Len(trades) : h[k + 1] = trades[k].price
       /\ order_books[0][i].last_price = h[Len(h)]

\* After two passes one book has a history of the seed and two trades at
\* different prices, the other still its seed alone.
C18_Witness ==
  /\ mpc[0] = "sync"
  /\ process_calls[0] = 2
  /\ Len(order_books[0][0].price_history) = 3
  /\ order_books[0][0].price_history[2] # order_books[0][0].price_history[3]
  /\ order_books[0][1].price_history = <<SeedPrice>>

\* ------------------------------------------------------------------ C19
\* The order as submit_order pushed it, found by its order_id.
Submitted(id) == intake_log[0][id - FirstOrderId + 1]

\* The orders resting in the books of rank 0.
Resting ==
  UNION {Range(order_books[0][i].bids) \cup Range(order_books[0][i].asks) :
           i \in Instruments}

\* An order submitted with a positive volume never has a volume below zero:
\* while it rests in a book its volume is above zero, and
\* every fill that names it found it above zero and left it at zero or more.
C19_VolumeNeverNegative ==
  /\ \A x \in Resting : Submitted(x.order_id).volume > 0 => x.volume > 0
  /\ \A k \in 1 .. Len(fill_log[0]) :
       LET f == fill_log[0][k]
       IN /\ Submitted(f.buy.order_id).volume > 0 =>
               f.buy.volume > 0 /\ f.buy.volume - f.volume >= 0
          /\ Submitted(f.sell.order_id).volume > 0 =>
               f.sell.volume > 0 /\ f.sell.volume - f.volume >= 0

\* Once process_orders has matched, an order submitted with a positive
\* volume that a fill brought to zero rests in no book.
C19_FilledIsRemoved ==
  mpc[0] = "sync" =>
    \A k \in 1 .. Len(intake_log[0]) :
      LET o == intake_log[0][k]
      IN (o.volume > 0 /\ FullyMatched(0, o)) => RestingPlaces(0, o.order_id) = {}

\* C19: an order submitted with a positive volume never has a negative
\* volume; after each process_orders call it rests with a volume above zero
\* or, its volume having reached zero, has been removed.
C19_PositiveVolumeStaysValid == C19_VolumeNeverNegative /\ C19_FilledIsRemoved

\* After a pass one order rests partly filled and the order it traded with,
\* filled in full, is gone.
C19_Witness ==
  /\ mpc[0] = "sync"
  /\ \E x \in Resting :
       /\ Submitted(x.order_id).volume > x.volume
       /\ x.volume > 0
       /\ \E k \in 1 .. Len(fill_log[0]) :
            LET f == fill_log[0][k]
            IN /\ f.buy.order_id = x.order_id
               /\ f.sell.volume > 0
               /\ f.sell.volume - f.volume = 0
               /\ RestingPlaces(0, f.sell.order_id) = {}

\* ------------------------------------------------------------------ C20
\* Matching changes nothing of an order but its volume: every resting order
\* is the order submitted under its order_id with the volume of its fills
\* taken off, and every fill names its two orders with the fields they were
\* submitted with.
C20_OnlyVolumeChanges ==
  /\ \A x \in Resting :
       x = [Submitted(x.order_id) EXCEPT !.volume = @ - FilledVolume(0, x.order_id)]
  /\ \A k \in 1 .. Len(fill_log[0]) :
       LET f == fill_log[0][k]
       IN /\ [f.buy EXCEPT !.volume = 0] = [Submitted(f.buy.order_id) EXCEPT !.volume = 0]
          /\ [f.sell EXCEPT !.volume = 0] = [Submitted(f.sell.order_id) EXCEPT !.volume = 0]

\* An order that a pass has filled in part is kept.
PartlyFilled(o) ==
  /\ FilledVolume(0, o.order_id) > 0
  /\ FilledVolume(0, o.order_id) < o.volume

\* Once process_orders has matched, every order filled in part rests at one
\* place, on its side of the book of its instrument.
C20_PartlyFilledRests ==
  mpc[0] = "sync" =>
    \A k \in 1 .. Len(intake_log[0]) - Len(pending_orders[0]) :
      LET o == intake_log[0][k]
      IN PartlyFilled(o) =>
           RestingPlaces(0, o.order_id) \in
             {{<<o.instrument_id, IF o.is_buy THEN "bids" ELSE "asks", j>>} : j \in 1 .. MaxSeqOrders}

\* In a pass, an order that an earlier pass filled in part is filled before
\* any order of its side and price with a later timestamp: when such a
\* later order is filled, the fills before it in the pass have taken all
\* that was left of the earlier one.
C20_KeepsPriorityStep ==
  MatchStep(0) =>
    LET before == Len(fill_log[0])
        fl == fill_log'[0]
    IN \A k \in before + 1 .. Len(fl) :
         LET book == order_books[0][fl[k].buy.instrument_id]
         IN /\ \A x \in Range(book.bids) :
                 (/\ PartlyFilled(Submitted(x.order_id))
                  /\ x.price = fl[k].buy.price
                  /\ Submitted(x.order_id).timestamp < fl[k].buy.timestamp) =>
                   FilledBetween(fl, x.order_id, before + 1, k - 1) = x.volume
            /\ \A x \in Range(book.asks) :
                 (/\ PartlyFilled(Submitted(x.order_id))
                  /\ x.price = fl[k].sell.price
                  /\ Submitted(x.order_id).timestamp < fl[k].sell.timestamp) =>
                   FilledBetween(fl, x.order_id, before + 1, k - 1) = x.volume

\* C20: an order filled in part stays in its book across ticks with only its
\* volume reduced, and is ranked on the next pass by the price and timestamp
\* it was submitted with.
C20_PartialFillKeepsPlace ==
  /\ [](C20_OnlyVolumeChanges /\ C20_PartlyFilledRests)
  /\ [][C20_KeepsPriorityStep]_vars

\* The pass of tick 0 left a buy of timestamp 0 filled in part; the pass of
\* tick 1 filled the rest of it and then part of a buy of the same price
\* and timestamp 1, which rests.
C20_Witness ==
  /\ mpc[0] = "sync"
  /\ Len(fill_log[0]) = 3
  /\ fill_log[0][1].pass = 0 /\ fill_log[0][2].pass = 1 /\ fill_log[0][3].pass = 1
  /\ fill_log[0][1].buy.order_id = fill_log[0][2].buy.order_id
  /\ fill_log[0][1].volume < fill_log[0][1].buy.volume
  /\ fill_log[0][2].volume = fill_log[0][2].buy.volume
  /\ fill_log[0][3].buy.price = fill_log[0][2].buy.price
  /\ fill_log[0][3].buy.timestamp > fill_log[0][2].buy.timestamp
  /\ \E x \in Resting : x.order_id = fill_log[0][3].buy.order_id /\ x.volume > 0

\* ------------------------------------------------------------------ C21
\* A worker of rank n is inside its block of the parallel region.
WorkerRunning(n) == \E w \in Workers : wpc[n][w] \in {"observe", "submit", "locked"}

\* While a worker of rank n runs, the main thread waits at the join, and
\* what a worker read is still what the book of its instrument holds; so
\* two workers that read the same instrument read the same values.
C21_SnapshotState(n) ==
  /\ WorkerRunning(n) => mpc[n] = "join"
  /\ \A w \in Workers :
       wobs[n][w] # <<>> =>
         /\ mpc[n] = "join"
         /\ wobs[n][w] = <<get_price(n, w % NumInstruments),
                           get_historical_average(n, w % NumInstruments)>>
  /\ \A w, v \in Workers :
       (wobs[n][w] # <<>> /\ wobs[n][v] # <<>>
          /\ w % NumInstruments = v % NumInstruments) => wobs[n][w] = wobs[n][v]

\* No step changes a book of rank n while one of its workers runs or the
\* main thread is anywhere from the start of the parallel region to its
\* join: the books then are as the last matching pass left them.
C21_SnapshotStep(n) ==
  (WorkerRunning(n) \/ Phase(n) = "GENERATING") => order_books'[n] = order_books[n]

InsideLock(n) ==
  {WorkerThread(w) : w \in {v \in Workers : wpc[n][v] = "locked"}}
    \cup (IF mpc[n] = "drained" THEN {MainThread} ELSE {})

\* At most one thread is inside a guarded block, and the mutex names it.
C22_MutualExclusion ==
  \A n \in Nodes :
    /\ Cardinality(InsideLock(n)) <= 1
    /\ \A t \in InsideLock(n) : order_mutex[n] = t
    /\ InsideLock(n) = {} => order_mutex[n] = NoThread

\* What happens under the mutex on rank n.  The step that ends a worker's
\* guarded block stores the next order_id and pushes one order; the locked
\* block of process_orders moves the queue into the books; neither touches
\* the ledger, a last_price or a price_history.  The matching pass, and any
\* step that changes the ledger, starts and ends with the mutex free.
C22_LockStep(n) ==
  /\ (order_mutex[n] # NoThread \/ order_mutex'[n] # NoThread) =>
       /\ ~MatchStep(n)
       /\ trade_log'[n] = trade_log[n]
       /\ \A i \in Instruments :
            /\ order_books'[n][i].last_price = order_books[n][i].last_price
            /\ order_books'[n][i].price_history = order_books[n][i].price_history
  /\ \A w \in Workers :
       (order_mutex[n] = WorkerThread(w) /\ order_mutex'[n] # WorkerThread(w)) =>
         /\ order_mutex'[n] = NoThread
         /\ next_order_id'[n] = next_order_id[n] + 1
         /\ Len(pending_orders'[n]) = Len(pending_orders[n]) + 1
         /\ SubSeq(pending_orders'[n], 1, Len(pending_orders[n])) = pending_orders[n]
         /\ order_books'[n] = order_books[n]
  /\ (order_mutex[n] = MainThread /\ order_mutex'[n] # MainThread) =>
       /\ order_mutex'[n] = NoThread
       /\ order_books'[n] = order_books[n]
       /\ pending_orders'[n] = pending_orders[n]
       /\ next_order_id'[n] = next_order_id[n]
  /\ (order_mutex[n] # MainThread /\ order_mutex'[n] = MainThread) =>
       /\ order_mutex[n] = NoThread
       /\ pending_orders'[n] = <<>>
       /\ next_order_id'[n] = next_order_id[n]

\* C22: order_mutex is held by at most one thread at a time and covers only
\* the id allocation and push of submit_order and the drain of
\* process_orders; match_orders never runs, and the ledger is never
\* appended to, while it is held.
C22_LockCoversIntakeOnly ==
  /\ [](C22_MutualExclusion)
  /\ [][\A n \in Nodes : C22_LockStep(n)]_vars

\* In tick 1 a worker holds the mutex inside submit_order while the other
\* worker of the rank waits to submit, the book holding orders of tick 0.
C22_Witness ==
  \E n \in Nodes, w, v \in Workers :
    /\ tick[n] = 1
    /\ wpc[n][w] = "locked"
    /\ order_mutex[n] = WorkerThread(w)
    /\ wpc[n][v] = "submit"
    /\ \E i \in Instruments : order_books[n][i].bids # <<>>


\* ------------------------------------------------------------------ C23
\* The fills and the trades that a step of rank n appended.
C23_NewFills(n) ==
  SubSeq(fill_log'[n], Len(fill_log[n]) + 1, Len(fill_log'[n]))

C23_NewTrades(n) ==
  SubSeq(trade_log'[n], Len(trade_log[n]) + 1, Len(trade_log'[n]))

\* The fill brought the remaining volume of its buy (its sell) to exactly 0.
ZeroedBuy(f) == f.buy.volume - f.volume = 0

ZeroedSell(f) == f.sell.volume - f.volume = 0

\* The most trades one pass executes on a book of b buys and a sells.
MostTrades(b, a) == IF b + a - 1 > 0 THEN b + a - 1 ELSE 0

\* The bound as stated, b + a - 1 for every book: a pass over a book with
\* no order at all executes 0 trades, which is more than -1.
C23_StatedBoundStep(n) ==
  MatchStep(n) =>
    \A i \in Instruments :
      Len(TradesOf(C23_NewTrades(n), i))
        <= Len(order_books[n][i].bids) + Len(order_books[n][i].asks) - 1

C23_StatedBound == [][\A n \in Nodes : C23_StatedBoundStep(n)]_vars

\* One matching pass of rank n.  Every iteration that executes brings its
\* buy or its sell to exactly 0, whatever the sign of the volumes; the loop
\* is past an order it zeroed, so no later iteration of the pass compares it
\* and it is not in the book after the pass; one trade is recorded per
\* iteration; the trades on a book of b buys and a sells number at most
\* b + a - 1, and none when the book is empty.
C23_PassStep(n) ==
  MatchStep(n) =>
    LET fills == C23_NewFills(n)
        trades == C23_NewTrades(n)
    IN /\ Len(trades) = Len(fills)
       /\ \A k \in 1 .. Len(fills) : ZeroedBuy(fills[k]) \/ ZeroedSell(fills[k])
       /\ \A j, k \in 1 .. Len(fills) :
            j < k =>
              /\ ZeroedBuy(fills[j]) =>
                   fills[k].buy.order_id # fills[j].buy.order_id
              /\ ZeroedSell(fills[j]) =>
                   fills[k].sell.order_id # fills[j].sell.order_id
       /\ \A k \in 1 .. Len(fills) :
            LET book == order_books'[n][fills[k].buy.instrument_id]
            IN /\ ZeroedBuy(fills[k]) =>
                    \A o \in Range(book.bids) : o.order_id # fills[k].buy.order_id
               /\ ZeroedSell(fills[k]) =>
                    \A o \in Range(book.asks) : o.order_id # fills[k].sell.order_id
       /\ \A i \in Instruments :
            Len(TradesOf(trades, i))
              <= MostTrades(Len(order_books[n][i].bids),
                            Len(order_books[n][i].asks))

\* C23: every match_orders call terminates, whatever the volumes: whenever
\* process_orders is about to match, the pass over each book has a result;
\* each executing iteration zeroes one of its two orders and moves past it,
\* so a pass on a book with b buys and a sells executes at most b + a - 1
\* trades, and none on a book with no orders.
C23_MatchTerminates ==
  /\ [](\A n \in Nodes :
          mpc[n] = "match" => match_all(order_books[n], tick[n]) # {})
  /\ [][\A n \in Nodes : C23_PassStep(n)]_vars

\* A pass over two buys and one sell that executed two trades, the most
\* its three orders allow, one of them with a negative volume.
C23_Witness ==
  /\ Len(trade_log[0]) = Len(fill_log[0])
  /\ \E k \in 1 .. Len(fill_log[0]) - 1 :
       LET f == fill_log[0][k]
           g == fill_log[0][k + 1]
       IN /\ f.pass = g.pass
          /\ f.sell.order_id = g.sell.order_id
          /\ f.buy.order_id # g.buy.order_id
          /\ (f.volume < 0 \/ g.volume < 0)
          /\ ZeroedBuy(f)

====
